---- MODULE Spec2Model ----
(***************************************************************************)
(* A model of scripts/spec_kit.py: the project root locator, the config    *)
(* store, the feature numberer, the feature registry and the command       *)
(* handlers built on them.  File names and descriptions are sequences of   *)
(* one-character strings, so that the regular expressions and the string   *)
(* formatting of the code are computed and not assumed.                    *)
(***************************************************************************)
EXTENDS Integers, Sequences, FiniteSets, TLC

VARIABLES cwd, configFile, specsDir, templates, docs,
          cmd, arg, exitCode, out, created,
          agentFiles, githubDir,
          agentArg, fault, updatedFiles, failedFiles, summary,
          lastPatch, updates, invocations

fsVars    == <<configFile, specsDir, templates, docs>>
agentVars == <<agentFiles, githubDir, agentArg, fault, updatedFiles,
               failedFiles, summary, lastPatch, updates>>
vars      == <<cwd, configFile, specsDir, templates, docs,
               cmd, arg, exitCode, out, created,
               agentFiles, githubDir,
               agentArg, fault, updatedFiles, failedFiles, summary,
               lastPatch, updates, invocations>>

-----------------------------------------------------------------------------
(* Bounds *)

\* number of create-new-feature calls that succeed in one behaviour
MaxCreates == 2
\* number of update-agent-context runs in one behaviour
MaxUpdates == 2

-----------------------------------------------------------------------------
(* Characters *)

Digits     == {"0", "1", "2", "3", "4", "5", "6", "7", "8", "9"}
LowerCase  == {"a", "b", "c", "d", "x", "y", "z", "f"}
UpperCase  == {"A", "B"}
Whitespace == {" ", "\t"}
Punct      == {"!", "-", "_"}

DigitVal(c) ==
    CASE c = "0" -> 0 [] c = "1" -> 1 [] c = "2" -> 2 [] c = "3" -> 3
      [] c = "4" -> 4 [] c = "5" -> 5 [] c = "6" -> 6 [] c = "7" -> 7
      [] c = "8" -> 8 [] c = "9" -> 9

DigitChar(d) ==
    CASE d = 0 -> "0" [] d = 1 -> "1" [] d = 2 -> "2" [] d = 3 -> "3"
      [] d = 4 -> "4" [] d = 5 -> "5" [] d = 6 -> "6" [] d = 7 -> "7"
      [] d = 8 -> "8" [] d = 9 -> "9"

\* str.lower() on the characters of the model
Lower(c) == CASE c = "A" -> "a" [] c = "B" -> "b" [] OTHER -> c

-----------------------------------------------------------------------------
(* The directory chain from the filesystem root (level 0) down to the      *)
(* deepest directory (level Depth); os.path.dirname of level l is level    *)
(* l - 1, and the filesystem root is its own dirname.                      *)

Depth  == 2
Levels == 0 .. Depth

Dirname(l) == IF l = 0 THEN 0 ELSE l - 1

\* the empty name stands for a current_feature of None
None == << >>

-----------------------------------------------------------------------------
(* ProjectManager *)

\* the test of line 30 without os.path.isdir(specs_dir)
IsProjectDir_ConfigOnly(l) == configFile[l].file

\* os.path.isfile(config_file) or os.path.isdir(specs_dir), line 30
IsProjectDir(l) == configFile[l].file \/ specsDir[l].exists

RECURSIVE WalkUp(_)
\* the while loop of _find_project_root: it stops, without looking into it,
\* at the directory that is its own dirname
WalkUp(l) ==
    IF l = Dirname(l) THEN cwd
    ELSE IF IsProjectDir(l) THEN l
    ELSE WalkUp(Dirname(l))

\* ProjectManager._find_project_root
FindProjectRoot == WalkUp(cwd)

\* ProjectManager._load_config followed by get_current_feature
LoadCurrentFeature(root) ==
    IF configFile[root].file THEN configFile[root].cur ELSE None

\* a save that keeps a current feature that is set already
SaveCurrentFeature_KeepFirst(root, name) ==
    IF configFile[root].file /\ configFile[root].cur # None THEN configFile
    ELSE [configFile EXCEPT ![root] = [file |-> TRUE, cur |-> name]]

\* ProjectManager.set_current_feature with _save_config, as a new value of
\* configFile
SaveCurrentFeature(root, name) ==
    [configFile EXCEPT ![root] = [file |-> TRUE, cur |-> name]]

RECURSIVE LeadingDigits(_)
\* group 1 of re.match(r'^(\d+)', entry): the longest run of digits the
\* name starts with
LeadingDigits(name) ==
    IF name = << >> \/ Head(name) \notin Digits THEN << >>
    ELSE <<Head(name)>> \o LeadingDigits(Tail(name))

RECURSIVE ParseInt(_, _)
\* int(digits), most significant digit first
ParseInt(ds, acc) ==
    IF ds = << >> THEN acc
    ELSE ParseInt(Tail(ds), acc * 10 + DigitVal(Head(ds)))

RECURSIVE ScanHighest_CountsFiles(_, _)
\* the loop without the os.path.isdir test of line 82
ScanHighest_CountsFiles(entries, highest) ==
    IF entries = {} THEN highest
    ELSE LET entry  == CHOOSE e \in entries : TRUE
             prefix == LeadingDigits(entry.name)
             number == ParseInt(prefix, 0)
         IN  ScanHighest_CountsFiles(entries \ {entry},
                 IF prefix # << >> /\ number > highest
                 THEN number ELSE highest)

RECURSIVE ScanHighest(_, _)
\* the for loop of get_next_feature_number over os.listdir(specs_dir)
ScanHighest(entries, highest) ==
    IF entries = {} THEN highest
    ELSE LET entry  == CHOOSE e \in entries : TRUE
             prefix == LeadingDigits(entry.name)
             number == ParseInt(prefix, 0)
         IN  ScanHighest(entries \ {entry},
                 IF entry.dir /\ prefix # << >> /\ number > highest
                 THEN number ELSE highest)

\* get_next_feature_number returning the highest number itself
GetNextFeatureNumber_NoIncrement(sd) ==
    IF sd.exists THEN ScanHighest(sd.entries, 0) ELSE 0

\* ProjectManager.get_next_feature_number on the specs directory sd
GetNextFeatureNumber(sd) ==
    (IF sd.exists THEN ScanHighest(sd.entries, 0) ELSE 0) + 1

-----------------------------------------------------------------------------
(* FeatureManager *)

RECURSIVE NatDigits(_)
\* the decimal digits of n, most significant first
NatDigits(n) ==
    IF n < 10 THEN <<DigitChar(n)>>
    ELSE Append(NatDigits(n \div 10), DigitChar(n % 10))

RECURSIVE ZeroFill(_, _)
ZeroFill(ds, width) ==
    IF Len(ds) >= width THEN ds ELSE ZeroFill(<<"0">> \o ds, width)

\* f"{next_num:03d}": at least three digits, more when the number needs them
Format03d(n) == ZeroFill(NatDigits(n), 3)

RECURSIVE LStrip(_, _)
LStrip(s, chars) ==
    IF s # << >> /\ Head(s) \in chars THEN LStrip(Tail(s), chars) ELSE s

RECURSIVE RStrip(_, _)
RStrip(s, chars) ==
    IF s # << >> /\ s[Len(s)] \in chars
    THEN RStrip(SubSeq(s, 1, Len(s) - 1), chars) ELSE s

\* str.strip(chars)
Strip(s, chars) == RStrip(LStrip(s, chars), chars)

\* the test without the strip()
IsBlankDescription_NoStrip(desc) == desc = << >>

\* feature_description.strip() is empty, lines 145 and 313
IsBlankDescription(desc) == Strip(desc, Whitespace) = << >>

\* re.sub(r'[^a-z0-9]', '-', c) for one character
NonAlnumToHyphen(c) ==
    IF c \in LowerCase \cup Digits THEN c ELSE "-"

\* feature_description.lower()
LowerAll(s) == [i \in 1 .. Len(s) |-> Lower(s[i])]

\* re.sub(r'[^a-z0-9]', '-', s)
ReplaceNonAlnum(s) == [i \in 1 .. Len(s) |-> NonAlnumToHyphen(s[i])]

RECURSIVE CollapseHyphens(_)
\* re.sub(r'-+', '-', s)
CollapseHyphens(s) ==
    IF Len(s) < 2 THEN s
    ELSE IF s[1] = "-" /\ s[2] = "-" THEN CollapseHyphens(Tail(s))
    ELSE <<Head(s)>> \o CollapseHyphens(Tail(s))

RECURSIVE SplitHyphen(_, _)
\* s.split('-'): the pieces between hyphens, empty pieces included
SplitHyphen(s, cur) ==
    IF s = << >> THEN <<cur>>
    ELSE IF Head(s) = "-" THEN <<cur>> \o SplitHyphen(Tail(s), << >>)
    ELSE SplitHyphen(Tail(s), Append(cur, Head(s)))

\* [w for w in words if w]
NonEmptyWords(ws) == SelectSeq(ws, LAMBDA w : w # << >>)

\* words[:n]
Take(ws, n) == SubSeq(ws, 1, IF Len(ws) < n THEN Len(ws) ELSE n)

RECURSIVE JoinHyphen(_)
\* '-'.join(words)
JoinHyphen(ws) ==
    IF ws = << >> THEN << >>
    ELSE IF Len(ws) = 1 THEN ws[1]
    ELSE ws[1] \o <<"-">> \o JoinHyphen(Tail(ws))

\* lines 159-166 of create_new_feature: the slug of a description
Slug(desc) ==
    LET lowered   == LowerAll(desc)
        hyphened  == ReplaceNonAlnum(lowered)
        collapsed == CollapseHyphens(hyphened)
        stripped  == Strip(collapsed, {"-"})
        words     == Take(NonEmptyWords(SplitHyphen(stripped, << >>)), 3)
    IN  JoinHyphen(words)

\* lines 156 and 169: final_feature_name
FinalFeatureName(num, desc) == Format03d(num) \o <<"-">> \o Slug(desc)

\* re.match(r'^[0-9]{3}-', feature_name)
MatchesFeaturePattern(name) ==
    /\ Len(name) >= 4
    /\ name[1] \in Digits /\ name[2] \in Digits /\ name[3] \in Digits
    /\ name[4] = "-"

\* check_feature_name without the pattern test of line 109
CheckFeatureName_NoPattern(name) == name # None

\* FeatureManager.check_feature_name
CheckFeatureName(name) ==
    IF name = None THEN FALSE ELSE MatchesFeaturePattern(name)

\* FeatureManager.get_feature_dir: <root>/specs/<feature_name>
GetFeatureDir(root, name) == [root |-> root, name |-> name]

\* os.path.exists in the place of os.path.isdir
IsFeatureDir_AnyEntry(root, name) ==
    /\ specsDir[root].exists
    /\ \E e \in specsDir[root].entries : e.name = name

\* os.path.isdir(<root>/specs/<name>)
IsFeatureDir(root, name) ==
    /\ specsDir[root].exists
    /\ [name |-> name, dir |-> TRUE] \in specsDir[root].entries

\* a regular file at <root>/specs/<name>
IsFeatureFile(root, name) ==
    /\ specsDir[root].exists
    /\ [name |-> name, dir |-> FALSE] \in specsDir[root].entries

\* os.makedirs(specs_dir, exist_ok=True), line 152, as a new value of one
\* level of specsDir
MakeSpecsDir(sd) ==
    IF sd.exists THEN sd ELSE [exists |-> TRUE, entries |-> {}]

\* os.makedirs(feature_dir, exist_ok=True), line 173, inside an existing
\* specs directory
MakeFeatureDir(sd, name) ==
    [sd EXCEPT !.entries = @ \cup {[name |-> name, dir |-> TRUE]}]

-----------------------------------------------------------------------------
(* FileManager *)

TemplateNames == {"spec-template.md", "plan-template.md",
                  "agent-file-template.md"}

\* the content of a document: the name of the template it was copied from,
\* or "" for an empty file
EmptyContent == ""

DocAt(root, name, doc) ==
    {d \in docs : d.root = root /\ d.feature = name /\ d.doc = doc}

\* FileManager.copy_template, as a new value of docs: shutil.copy2
\* overwrites the target, Path.touch creates it empty or leaves it as it is
CopyTemplate(root, template, name, doc) ==
    IF template \in templates[root]
    THEN (docs \ DocAt(root, name, doc))
         \cup {[root |-> root, feature |-> name, doc |-> doc,
                content |-> template]}
    ELSE IF DocAt(root, name, doc) # {} THEN docs
    ELSE docs \cup {[root |-> root, feature |-> name, doc |-> doc,
                     content |-> EmptyContent]}

-----------------------------------------------------------------------------
(* The agent context files of a project root, lines 461-465 *)

Claude  == "CLAUDE.md"
Gemini  == "GEMINI.md"
Copilot == ".github/copilot-instructions.md"

AgentNames == {Claude, Gemini, Copilot}

\* a path that is not a file
NoFile == [exists |-> FALSE, lines |-> << >>]

FileOf(c) == [exists |-> TRUE, lines |-> c]

NoFault == [file |-> "", kind |-> "none"]

\* the exceptions one run meets: none, or one for one file, raised when the
\* file or the template is read, while the text is patched, or when the
\* file is written
Faults ==
    {NoFault} \cup [file : AgentNames, kind : {"read", "patch", "write"}]

\* the create-new-feature processes that run at the same time: none
NoInvocations == [proc |-> << >>, saved |-> << >>]

\* agent_type is None: the command was called without an argument
NoArg == "<none>"

\* no update-agent-context has run
AgentIdle ==
    /\ agentArg = NoArg
    /\ fault = NoFault.file
    /\ updatedFiles = {}
    /\ failedFiles = {}
    /\ summary = FALSE
    /\ lastPatch = [a \in AgentNames |-> [plan |-> "", feature |-> None]]
    /\ updates = 0

-----------------------------------------------------------------------------
(* Names and descriptions the commands are called with *)

N001a == <<"0", "0", "1", "-", "a">>
N003b == <<"0", "0", "3", "-", "b">>
N004a == <<"0", "0", "4", "-", "a">>
N999z == <<"9", "9", "9", "-", "z">>
N12ab == <<"1", "2", "a", "b">>
Nxy   == <<"x", "-", "y">>
N002z == <<"0", "0", "2", "-", "z">>

\* what specs/ may hold before the first command: feature directories, a
\* directory without a number, one with a number and no hyphen, a regular
\* file named like a feature
InitialEntries ==
    { [name |-> N001a, dir |-> TRUE],  [name |-> N003b, dir |-> TRUE],
      [name |-> Nxy,   dir |-> TRUE],  [name |-> N12ab, dir |-> TRUE],
      [name |-> N999z, dir |-> TRUE],  [name |-> N004a, dir |-> FALSE] }

\* every subset of InitialEntries is tried when specs/ lies in the deepest
\* directory and the command runs there; otherwise specs/ holds one of these
SampleTrees ==
    { {}, {[name |-> N001a, dir |-> TRUE], [name |-> N003b, dir |-> TRUE],
           [name |-> Nxy, dir |-> TRUE]} }

\* blank descriptions, one without a letter or digit, one of a single word,
\* one of four words with upper case and runs of punctuation
Descriptions ==
    { << >>,
      <<" ", "\t", " ">>,
      <<"!">>,
      <<"a">>,
      <<"A", "b", "!", "!", "_", "7", " ", "c", " ", "d">> }

NoOut == [featureName |-> None, featureDir |-> GetFeatureDir(-1, None),
          featureNum |-> << >>, number |-> 0]

-----------------------------------------------------------------------------
(* The state before the first command *)

Init ==
    /\ cwd \in Levels
    /\ invocations = NoInvocations
    /\ configFile = [l \in Levels |-> [file |-> FALSE, cur |-> None]]
    /\ \E where \in Levels \cup {-1}, tree \in SUBSET InitialEntries,
          t \in {{}, TemplateNames} :
          /\ where = -1 => tree = {}
          /\ (where # cwd \/ cwd # Depth \/ t # {}) => tree \in SampleTrees
          /\ specsDir = [l \in Levels |->
                 IF l = where THEN [exists |-> TRUE, entries |-> tree]
                 ELSE [exists |-> FALSE, entries |-> {}]]
          /\ templates = [l \in Levels |-> t]
    /\ docs = {}
    /\ cmd = "none"
    /\ arg = << >>
    /\ exitCode = 0
    /\ out = NoOut
    /\ created = << >>
    /\ AgentIdle
    /\ agentFiles = [l \in Levels |-> [a \in AgentNames |-> NoFile]]
    /\ githubDir = [l \in Levels |-> FALSE]

-----------------------------------------------------------------------------
(* Commands: each is one run of main(), which builds SpecKit() (root       *)
(* location and config load) and calls one handler                         *)

\* the handler exits with status 1 and has written nothing
Fail(c, a) ==
    /\ cmd' = c
    /\ arg' = a
    /\ exitCode' = 1
    /\ out' = NoOut
    /\ UNCHANGED <<cwd, invocations, fsVars, created, agentVars>>

\* main() for create-new-feature with SpecKit.create_new_feature and
\* FeatureManager.create_new_feature
CreateNewFeature(desc) ==
    LET root == FindProjectRoot
        sd   == MakeSpecsDir(specsDir[root])
        num  == GetNextFeatureNumber(sd)
        name == FinalFeatureName(num, desc)
    IN  /\ Len(created) < MaxCreates
        /\ IF IsBlankDescription(desc)
           THEN Fail("create-new-feature", desc)
           ELSE IF [name |-> name, dir |-> FALSE] \in sd.entries
           THEN \* makedirs raises FileExistsError after specs/ was made
                /\ specsDir' = [specsDir EXCEPT ![root] = sd]
                /\ cmd' = "create-new-feature"
                /\ arg' = desc
                /\ exitCode' = 1
                /\ out' = NoOut
                /\ UNCHANGED <<cwd, invocations, configFile, templates, docs, created,
                               agentVars>>
           ELSE /\ specsDir' = [specsDir EXCEPT
                                  ![root] = MakeFeatureDir(sd, name)]
                /\ configFile' = SaveCurrentFeature(root, name)
                /\ docs' = CopyTemplate(root, "spec-template.md",
                                        name, "spec.md")
                /\ cmd' = "create-new-feature"
                /\ arg' = desc
                /\ exitCode' = 0
                /\ out' = [featureName |-> name,
                           featureDir  |-> GetFeatureDir(root, name),
                           featureNum  |-> Format03d(num),
                           number      |-> num]
                /\ created' = Append(created, num)
                /\ UNCHANGED <<cwd, invocations, templates, agentVars>>

\* main() for set-current-feature with SpecKit.set_current_feature
SetCurrentFeature(name) ==
    LET root == FindProjectRoot
    IN  IF ~CheckFeatureName(name) \/ ~IsFeatureDir(root, name)
        THEN Fail("set-current-feature", name)
        ELSE /\ configFile' = SaveCurrentFeature(root, name)
             /\ cmd' = "set-current-feature"
             /\ arg' = name
             /\ exitCode' = 0
             /\ out' = NoOut
             /\ UNCHANGED <<cwd, invocations, specsDir, templates, docs, created,
                            agentVars>>

\* main() for get-feature-paths with SpecKit.get_feature_paths_command and
\* FeatureManager.get_feature_paths
GetFeaturePathsCommand ==
    LET root    == FindProjectRoot
        current == LoadCurrentFeature(root)
    IN  IF current = None \/ ~CheckFeatureName(current)
        THEN Fail("get-feature-paths", << >>)
        ELSE /\ cmd' = "get-feature-paths"
             /\ arg' = << >>
             /\ exitCode' = 0
             /\ out' = [featureName |-> current,
                        featureDir  |-> GetFeatureDir(root, current),
                        featureNum  |-> << >>,
                        number      |-> 0]
             /\ UNCHANGED <<cwd, invocations, fsVars, created, agentVars>>

\* a call of ProjectManager.get_next_feature_number on the located root
NextFeatureNumberCall ==
    LET root == FindProjectRoot
    IN  /\ cmd' = "get_next_feature_number"
        /\ arg' = << >>
        /\ exitCode' = 0
        /\ out' = [NoOut EXCEPT
                     !.number = GetNextFeatureNumber(specsDir[root])]
        /\ UNCHANGED <<cwd, invocations, fsVars, created, agentVars>>

\* names set-current-feature is called with, besides those of the entries of
\* specs/: none, one without a number, a missing one, that of a regular file
FeatureNames == {None, Nxy, N002z, N004a}

Next ==
    \/ \E desc \in Descriptions : CreateNewFeature(desc)
    \/ \E name \in FeatureNames \cup
                   {e.name : e \in specsDir[FindProjectRoot].entries} :
          SetCurrentFeature(name)
    \/ GetFeaturePathsCommand
    \/ NextFeatureNumberCall

Spec == Init /\ [][Next]_vars

TypeOK ==
    /\ cwd \in Levels
    /\ exitCode \in {0, 1}
    /\ Len(created) <= MaxCreates

-----------------------------------------------------------------------------
(* Agent context files.  A file is the sequence of its lines, without the  *)
(* newlines that join them: a text that ends with a newline has an empty   *)
(* last line.  A line is a record: k is its kind, a and b the texts and f  *)
(* the feature name it is formatted from, ind its leading whitespace.      *)
(*   blank   ""                         ws     "  "                        *)
(*   text    a (prose)                  hdr    "## " a                     *)
(*   fence   "```" a                    path   a (a directory)             *)
(*   tech    "- " a " + " b " (" f ")"  db     "- " a " (" f ")"           *)
(*   cmd     a (a shell command)        todo   "# Add commands for " a     *)
(*   style   a ": Follow standard conventions"                             *)
(*   change  "- " f ": Added " a " + " b                                   *)
(*   date    "Auto-generated from all feature plans. Last updated: " a     *)

Line(k, a, b, f) == [k |-> k, a |-> a, b |-> b, f |-> f, ind |-> 0]

Blank        == Line("blank", "", "", None)
WsLine       == [Line("ws", "", "", None) EXCEPT !.ind = 2]
Text(a)      == Line("text", a, "", None)
Indented(l)  == [l EXCEPT !.ind = 2]
Hdr(a)       == Line("hdr", a, "", None)
Fence(a)     == Line("fence", a, "", None)
PathLine(a)  == Line("path", a, "", None)
CmdLine(a)   == Line("cmd", a, "", None)
DateLine(a)  == Line("date", a, "", None)

\* f"- {new_lang} + {new_framework} ({current_feature})", lines 534 and 587
TechLine(lang, fw, feat) == Line("tech", lang, fw, feat)
\* f"- {new_db} ({current_feature})", line 590
DbLine(db, feat) == Line("db", db, "", feat)
\* f"# Add commands for {new_lang}", line 552
TodoLine(lang) == Line("todo", lang, "", None)
\* f"{new_lang}: Follow standard conventions", line 559
StyleLine(lang) == Line("style", lang, "", None)
\* f"- {current_feature}: Added {new_lang} + {new_framework}", lines 563, 639
ChangeLine(feat, lang, fw) == Line("change", lang, fw, feat)

\* datetime.now().strftime('%Y-%m-%d'): one day for the whole behaviour
Today == "2026-11-03"

IsBlank(l) == l.k = "blank"

\* c.strip() of a line
StripLine(l) == IF l.k = "ws" THEN Blank ELSE [l EXCEPT !.ind = 0]

\* lang in text, for a non-empty language, line 585
ContainsLang(l, lang) ==
    l.k \in {"tech", "todo", "style", "change"} /\ l.a = lang

\* db in text, for a non-empty storage, line 588
ContainsDb(l, db) == l.k = "db" /\ l.a = db

\* f"# {new_lang}" in text, line 609
ContainsLangComment(l, lang) == l.k = "todo" /\ l.a = lang

\* "frontend/" in text, line 599
ContainsFrontend(l) ==
    l.k = "path" /\ l.a \in {"frontend/", "frontend/src/ # Web UI"}

\* "```bash" in text, line 625
ContainsBashFence(l) == l.k = "fence" /\ l.a = "bash"

\* the line starts with "```", the end \n``` of the patterns of lines 601, 611
StartsWithFence(l) == l.k = "fence" /\ l.ind = 0

\* the line ends with "## " and the section title, the start of the
\* patterns of lines 579, 601, 611, 614 and 634 (none of them is anchored)
IsHeader(l, title) == l.k = "hdr" /\ l.a = title

\* the lines i..j of a file, empty when j < i
Lines(c, i, j) == IF j < i THEN << >> ELSE SubSeq(c, i, j)

\* the file with the lines ins put in after line k
InsertAfter(c, k, ins) == Lines(c, 1, k) \o ins \o Lines(c, k + 1, Len(c))

\* "\n\n" follows line k: line k + 1 is empty and is not the last line
BlankLineAfter(c, k) == k + 2 <= Len(c) /\ IsBlank(c[k + 1])

\* "$" matches after line k: the text ends there or only a newline follows
EndOfTextAfter(c, k) == k = Len(c) \/ (k = Len(c) - 1 /\ IsBlank(c[Len(c)]))

\* "\n```" follows line k
FenceAfter(c, k) == k + 1 <= Len(c) /\ StartsWithFence(c[k + 1])

NoMatch == [found |-> FALSE, h |-> 0, k |-> 0]

\* the end of a pattern after line k: "blank" is \n\n, "fence" is \n```,
\* "blank-or-end" is (\n\n|$)
EndAt(c, k, end) ==
    CASE end = "blank" -> BlankLineAfter(c, k)
      [] end = "fence" -> FenceAfter(c, k)
      [] end = "blank-or-end" -> BlankLineAfter(c, k) \/ EndOfTextAfter(c, k)

\* re.search of a pattern  <header>\n<opening lines>(.*?)<end> : the first
\* header line that the opening lines follow and after which some line is
\* followed by the end; the lazy group then stops at the first such line.
SectionMatch(c, title, opening, end) ==
    LET skip == 1 + Len(opening)
        hs   == {h \in 1 .. Len(c) :
                   /\ IsHeader(c[h], title)
                   /\ h + skip <= Len(c)
                   /\ \A i \in 1 .. Len(opening) : c[h + i] = opening[i]
                   /\ \E k \in h + skip .. Len(c) : EndAt(c, k, end)}
    IN  IF hs = {} THEN NoMatch
        ELSE LET h  == CHOOSE x \in hs : \A y \in hs : x <= y
                 ks == {k \in h + skip .. Len(c) : EndAt(c, k, end)}
             IN  [found |-> TRUE, h |-> h,
                  k |-> CHOOSE x \in ks : \A y \in ks : x <= y]

\* the lines of group 1 of a match
Group1(c, m, opening) == Lines(c, m.h + 1 + Len(opening), m.k)

-----------------------------------------------------------------------------
(* The plan document.  The content of a plan.md is a name; PlanFields is   *)
(* what the five **Field**: lines of that content hold, "" for a field     *)
(* with no such line.                                                      *)

NeedsClarification == "Python 3.11 or NEEDS CLARIFICATION"

PlanFields(content) ==
    CASE content = "plan-python-web" ->
           [lang |-> "Python 3.11", deps |-> "FastAPI",
            storage |-> "PostgreSQL", ptype |-> "web"]
      [] content = "plan-rust-single" ->
           [lang |-> "Rust 1.75", deps |-> "tokio",
            storage |-> "N/A", ptype |-> "single"]
      [] content = "plan-go-webapp" ->
           [lang |-> "Go 1.21", deps |-> "gin",
            storage |-> "PostgreSQL", ptype |-> "Web application"]
      [] content = "plan-ts-mobile" ->
           [lang |-> "TypeScript 5.2", deps |-> "React Native",
            storage |-> "", ptype |-> "mobile"]
      [] content = "plan-template.md" ->
           [lang |-> NeedsClarification, deps |-> NeedsClarification,
            storage |-> NeedsClarification, ptype |-> "single/web/mobile"]
      [] OTHER ->
           [lang |-> "", deps |-> "", storage |-> "", ptype |-> ""]

PlanContents == {"plan-python-web", "plan-rust-single", "plan-go-webapp",
                 "plan-ts-mobile", "plan-template.md", EmptyContent}

\* "NEEDS CLARIFICATION" in value
HasNeedsClarification(v) == v = NeedsClarification
\* "N/A" in value
HasNA(v) == v = "N/A"
\* "Python" in new_lang and so on, lines 545-549 and 618-622
MentionsPython(lang) == lang = "Python 3.11"
MentionsRust(lang)   == lang = "Rust 1.75"
MentionsJS(lang)     == lang = "TypeScript 5.2"
\* "web" in new_project_type.lower(), line 537
MentionsWeb(ptype) == ptype \in {"web", "Web application", "single/web/mobile"}

\* lines 474-512 of update_agent_context: new_lang, new_framework, new_db
\* and new_project_type
ExtractPlan(content) ==
    LET p == PlanFields(content)
    IN  [lang  |-> IF HasNeedsClarification(p.lang) THEN "" ELSE p.lang,
         fw    |-> IF HasNeedsClarification(p.deps) THEN "" ELSE p.deps,
         db    |-> IF HasNA(p.storage) \/ HasNeedsClarification(p.storage)
                   THEN "" ELSE p.storage,
         ptype |-> p.ptype]

\* the command line of a language, lines 545-550 and 618-623; << >> when
\* the language is not one of the three
LanguageCommands(lang) ==
    IF MentionsPython(lang) THEN <<CmdLine("cd src && pytest && ruff check .")>>
    ELSE IF MentionsRust(lang) THEN <<CmdLine("cargo test && cargo clippy")>>
    ELSE IF MentionsJS(lang) THEN <<CmdLine("npm test && npm run lint")>>
    ELSE << >>

-----------------------------------------------------------------------------
(* update_agent_file, the branch that patches an existing file: each step  *)
(* maps the lines of the file to the lines after the step                  *)

\* lines 577-596: Active Technologies
PatchTechnologies(c, plan, feat) ==
    LET m == SectionMatch(c, "Active Technologies", << >>, "blank")
        existing == Group1(c, m, << >>)
        hasLang == \E i \in 1 .. Len(existing) :
                       ContainsLang(existing[i], plan.lang)
        hasDb   == \E i \in 1 .. Len(existing) :
                       ContainsDb(existing[i], plan.db)
        additions ==
            (IF plan.lang # "" /\ ~hasLang
             THEN <<TechLine(plan.lang, plan.fw, feat)>> ELSE << >>)
            \o (IF plan.db # "" /\ ~hasDb /\ plan.db # "N/A"
                THEN <<DbLine(plan.db, feat)>> ELSE << >>)
    IN  IF m.found THEN InsertAfter(c, m.k, additions) ELSE c

\* lines 598-606: Project Structure
PatchStructure(c, plan) ==
    LET m == SectionMatch(c, "Project Structure", <<Fence("")>>, "fence")
    IN  IF /\ plan.ptype = "web"
           /\ ~\E i \in 1 .. Len(c) : ContainsFrontend(c[i])
           /\ m.found
        THEN InsertAfter(c, m.k, <<PathLine("frontend/src/ # Web UI")>>)
        ELSE c

\* lines 608-630: Commands
PatchCommands(c, plan) ==
    LET fenced == SectionMatch(c, "Commands", <<Fence("bash")>>, "fence")
        plain  == SectionMatch(c, "Commands", << >>, "blank")
        hasBash == \E i \in 1 .. Len(c) : ContainsBashFence(c[i])
    IN  IF plan.lang = ""
           \/ \E i \in 1 .. Len(c) : ContainsLangComment(c[i], plan.lang)
        THEN c
        ELSE IF fenced.found
        THEN InsertAfter(c, fenced.k, LanguageCommands(plan.lang))
        ELSE IF plain.found /\ ~hasBash
        THEN InsertAfter(c, plain.k, LanguageCommands(plan.lang))
        ELSE c

RECURSIVE StrippedEntries(_)
\* [c.strip() for c in group.strip().split('\n') if c.strip()], line 636
StrippedEntries(ls) ==
    IF ls = << >> THEN << >>
    ELSE IF IsBlank(StripLine(Head(ls))) THEN StrippedEntries(Tail(ls))
    ELSE <<StripLine(Head(ls))>> \o StrippedEntries(Tail(ls))

\* lines 632-642: Recent Changes
PatchRecentChanges(c, plan, feat) ==
    LET m == SectionMatch(c, "Recent Changes", << >>, "blank-or-end")
        changes == <<ChangeLine(feat, plan.lang, plan.fw)>>
                     \o StrippedEntries(Group1(c, m, << >>))
    IN  IF m.found
        THEN Lines(c, 1, m.h) \o Take(changes, 3) \o Lines(c, m.k + 1, Len(c))
        ELSE c

\* lines 644-646: the Last updated date
PatchDate(c) ==
    [i \in 1 .. Len(c) |-> IF c[i].k = "date" THEN [c[i] EXCEPT !.a = Today]
                           ELSE c[i]]

\* lines 577-646 in their order
PatchAgentFile(c, plan, feat) ==
    PatchDate(
      PatchRecentChanges(
        PatchCommands(
          PatchStructure(
            PatchTechnologies(c, plan, feat), plan), plan), plan, feat))

-----------------------------------------------------------------------------
(* Agent context files that exist before the first command: a title and   *)
(* the date line, then one variant of each section, then the end of file  *)

PythonCommand == CmdLine("cd src && pytest && ruff check .")

Preamble ==
    <<Text("# Development Guidelines"), Blank, DateLine("2020-01-01"), Blank>>

\* no section, a section with one entry, an empty section
TechVariants ==
    { << >>,
      <<Hdr("Active Technologies"),
        TechLine("Python 3.11", "FastAPI", N001a), Blank>>,
      <<Hdr("Active Technologies"), Blank>> }

\* a block without and a block with a frontend/ entry
StructureVariants ==
    { <<Hdr("Project Structure"), Fence(""), PathLine("src/"),
        PathLine("tests/"), Fence(""), Blank>>,
      <<Hdr("Project Structure"), Fence(""), PathLine("backend/"),
        PathLine("frontend/"), PathLine("tests/"), Fence(""), Blank>> }

\* commands as plain lines, in a bash block, none, the placeholder comment
CommandsVariants ==
    { <<Hdr("Commands"), PythonCommand, Blank>>,
      <<Hdr("Commands"), Fence("bash"), PythonCommand, Fence(""), Blank>>,
      <<Hdr("Commands"), Blank>>,
      <<Hdr("Commands"), TodoLine("Go 1.21"), Blank>> }

\* a section the patcher does not know
CodeStyle == <<Hdr("Code Style"), StyleLine("Python 3.11")>>

\* no section, one entry, three entries, an empty section
ChangesVariants ==
    { << >>,
      <<Blank, Hdr("Recent Changes"),
        ChangeLine(N001a, "Python 3.11", "FastAPI")>>,
      <<Blank, Hdr("Recent Changes"),
        ChangeLine(N003b, "Rust 1.75", "tokio"),
        Indented(ChangeLine(N002z, "Go 1.21", "gin")),
        ChangeLine(N001a, "Python 3.11", "FastAPI")>>,
      <<Blank, Hdr("Recent Changes")>> }

\* the file ends after a newline, without one, or with the manual additions
TailVariants ==
    { <<Blank>>,
      << >>,
      <<Blank, Text("<!-- MANUAL ADDITIONS START -->"), Text("my notes"),
        Indented(Text("more notes")),
        Text("<!-- MANUAL ADDITIONS END -->"), Blank>> }

ExistingFiles ==
    { Preamble \o t \o s \o c \o CodeStyle \o r \o e :
        t \in TechVariants, s \in StructureVariants, c \in CommandsVariants,
        r \in ChangesVariants, e \in TailVariants }

\* one file of ExistingFiles, for the files other than CLAUDE.md
SampleFile ==
    Preamble
    \o <<Hdr("Active Technologies"),
         TechLine("Python 3.11", "FastAPI", N001a), Blank>>
    \o <<Hdr("Project Structure"), Fence(""), PathLine("src/"),
         PathLine("tests/"), Fence(""), Blank>>
    \o <<Hdr("Commands"), PythonCommand, Blank>>
    \o CodeStyle
    \o <<Blank, Hdr("Recent Changes"),
         ChangeLine(N001a, "Python 3.11", "FastAPI")>>
    \o <<Blank>>

-----------------------------------------------------------------------------
(* update_agent_context *)

\* lines 528-563: templates/agent-file-template.md with its placeholders
\* replaced
InstantiateTemplate(plan, feat) ==
    <<Text("# Development Guidelines"), Blank, DateLine(Today), Blank,
      Hdr("Active Technologies"), TechLine(plan.lang, plan.fw, feat), Blank,
      Hdr("Project Structure"), Fence("")>>
    \o (IF MentionsWeb(plan.ptype)
        THEN <<PathLine("backend/"), PathLine("frontend/"), PathLine("tests/")>>
        ELSE <<PathLine("src/"), PathLine("tests/")>>)
    \o <<Fence(""), Blank, Hdr("Commands")>>
    \o (IF LanguageCommands(plan.lang) # << >>
        THEN LanguageCommands(plan.lang) ELSE <<TodoLine(plan.lang)>>)
    \o <<Blank, Hdr("Code Style"), StyleLine(plan.lang), Blank,
         Hdr("Recent Changes"), ChangeLine(feat, plan.lang, plan.fw), Blank,
         Text("<!-- MANUAL ADDITIONS START -->"),
         Text("<!-- MANUAL ADDITIONS END -->"), Blank>>

Outcome(file, ok, reported, aborted) ==
    [file |-> file, ok |-> ok, reported |-> reported, aborted |-> aborted]

\* update_agent_file with every exception of the patching branch let through
UpdateAgentFile_NoTry(file, hasTemplate, hasDir, plan, feat, kind) ==
    IF ~file.exists
    THEN IF ~hasTemplate THEN Outcome(file, FALSE, FALSE, FALSE)
         ELSE IF kind # "none" \/ ~hasDir
         THEN Outcome(file, FALSE, FALSE, TRUE)
         ELSE Outcome(FileOf(InstantiateTemplate(plan, feat)),
                      TRUE, FALSE, FALSE)
    ELSE IF kind # "none" THEN Outcome(file, FALSE, FALSE, TRUE)
    ELSE Outcome(FileOf(PatchAgentFile(file.lines, plan, feat)),
                 TRUE, FALSE, FALSE)

\* update_agent_file, lines 514-656: file is the target, hasTemplate says
\* whether templates/agent-file-template.md is a file, hasDir whether the
\* directory of the target exists, kind is the exception the call meets.
\* The creating branch has no try: an exception leaves the function.
UpdateAgentFile(file, hasTemplate, hasDir, plan, feat, kind) ==
    IF ~file.exists
    THEN IF ~hasTemplate THEN Outcome(file, FALSE, FALSE, FALSE)
         ELSE IF kind # "none" \/ ~hasDir
         THEN Outcome(file, FALSE, FALSE, TRUE)
         ELSE Outcome(FileOf(InstantiateTemplate(plan, feat)),
                      TRUE, FALSE, FALSE)
    ELSE IF kind # "none" THEN Outcome(file, FALSE, TRUE, FALSE)
    ELSE Outcome(FileOf(PatchAgentFile(file.lines, plan, feat)),
                 TRUE, FALSE, FALSE)

\* the targets when a call without an argument takes all three files
SelectedFiles_AllThree(files, agentType) ==
    CASE agentType = "claude"  -> <<Claude>>
      [] agentType = "gemini"  -> <<Gemini>>
      [] agentType = "copilot" -> <<Copilot>>
      [] OTHER -> <<Claude, Gemini, Copilot>>

\* the targets of lines 659-683 in their order
SelectedFiles(files, agentType) ==
    CASE agentType = "claude"  -> <<Claude>>
      [] agentType = "gemini"  -> <<Gemini>>
      [] agentType = "copilot" -> <<Copilot>>
      [] OTHER ->
           LET existing ==
                 SelectSeq(<<Claude, Gemini, Copilot>>,
                           LAMBDA a : files[a].exists)
           IN  IF existing = << >> THEN <<Claude>> ELSE existing

RECURSIVE UpdateAll(_, _, _, _, _, _)
\* the calls of update_agent_file one after another; an exception that
\* leaves one of them ends the command
UpdateAll(sel, st, root, plan, feat, flt) ==
    IF sel = << >> \/ st.aborted THEN st
    ELSE LET a == Head(sel)
             r == UpdateAgentFile(st.files[a],
                      "agent-file-template.md" \in templates[root],
                      a # Copilot \/ githubDir[root],
                      plan, feat,
                      IF flt.file = a THEN flt.kind ELSE "none")
         IN  UpdateAll(Tail(sel),
                 [files   |-> [st.files EXCEPT ![a] = r.file],
                  updated |-> IF r.ok THEN st.updated \cup {a}
                              ELSE st.updated,
                  failed  |-> IF r.reported THEN st.failed \cup {a}
                              ELSE st.failed,
                  aborted |-> r.aborted],
                 root, plan, feat, flt)

\* the command exits with status 1 before it looks at an agent file
AgentFail(agentType) ==
    /\ cmd' = "update-agent-context"
    /\ agentArg' = agentType
    /\ exitCode' = 1
    /\ fault' = NoFault.file
    /\ updatedFiles' = {}
    /\ failedFiles' = {}
    /\ summary' = FALSE
    /\ UNCHANGED <<cwd, invocations, fsVars, arg, out, created, agentFiles, githubDir,
                   lastPatch, updates>>

AgentTypes == {"claude", "gemini", "copilot", NoArg, "cursor"}

\* every argument is taken as an agent type to update
KnownAgentType_Any(agentType) == TRUE

\* the argument is one the dispatch of lines 659-683 has a branch for
KnownAgentType(agentType) ==
    agentType \in {"claude", "gemini", "copilot", NoArg}

\* main() for update-agent-context with SpecKit.update_agent_context
UpdateAgentContext(agentType, flt) ==
    LET root    == FindProjectRoot
        current == LoadCurrentFeature(root)
        planDoc == DocAt(root, current, "plan.md")
        content == (CHOOSE d \in planDoc : TRUE).content
        plan    == ExtractPlan(content)
        files   == agentFiles[root]
        sel     == SelectedFiles(files, agentType)
        st      == UpdateAll(sel,
                       [files |-> files, updated |-> {}, failed |-> {},
                        aborted |-> FALSE],
                       root, plan, current, flt)
    IN  /\ updates < MaxUpdates
        /\ IF \/ current = None
              \/ planDoc = {}
              \/ ~KnownAgentType(agentType)
           THEN flt = NoFault /\ AgentFail(agentType)
           ELSE /\ flt # NoFault =>
                     /\ \E i \in 1 .. Len(sel) : sel[i] = flt.file
                     /\ flt.kind = "patch" => files[flt.file].exists
                     /\ ~files[flt.file].exists =>
                           "agent-file-template.md" \in templates[root]
                /\ agentFiles' = [agentFiles EXCEPT ![root] = st.files]
                /\ cmd' = "update-agent-context"
                /\ agentArg' = agentType
                /\ fault' = flt.file
                /\ updatedFiles' = st.updated
                /\ failedFiles' = st.failed
                /\ summary' = ~st.aborted
                /\ exitCode' = IF st.aborted THEN 1 ELSE 0
                /\ lastPatch' =
                     [a \in AgentNames |->
                        IF a \in st.updated
                        THEN IF files[a].exists
                             THEN [plan |-> content, feature |-> current]
                             ELSE [plan |-> "", feature |-> None]
                        ELSE lastPatch[a]]
                /\ updates' = updates + 1
                /\ UNCHANGED <<cwd, invocations, fsVars, arg, out, created, githubDir>>

\* a project in /p with the features 001-a and 003-b, each with a plan:
\* the state the two specifications below start from, but for the agent
\* context files, the plan of 001-a and the templates
ProjectInit(pc, t, cl, ge, co, gh) ==
    /\ cwd = 1
    /\ invocations = NoInvocations
    /\ specsDir = [l \in Levels |->
          IF l = 1
          THEN [exists |-> TRUE,
                entries |-> {[name |-> N001a, dir |-> TRUE],
                             [name |-> N003b, dir |-> TRUE]}]
          ELSE [exists |-> FALSE, entries |-> {}]]
    /\ configFile = [l \in Levels |->
          IF l = 1 THEN [file |-> TRUE, cur |-> N001a]
          ELSE [file |-> FALSE, cur |-> None]]
    /\ docs = {[root |-> 1, feature |-> N001a, doc |-> "plan.md",
                content |-> pc],
               [root |-> 1, feature |-> N003b, doc |-> "plan.md",
                content |-> "plan-rust-single"]}
    /\ templates = [l \in Levels |-> t]
    /\ agentFiles = [l \in Levels |->
          [a \in AgentNames |->
             IF l # 1 THEN NoFile
             ELSE CASE a = Claude -> cl [] a = Gemini -> ge [] OTHER -> co]]
    /\ githubDir = [l \in Levels |-> l = 1 /\ gh]
    /\ cmd = "none"
    /\ arg = << >>
    /\ exitCode = 0
    /\ out = NoOut
    /\ created = << >>
    /\ AgentIdle

\* CLAUDE.md is any of ExistingFiles, or is yet to be created
PatchInit ==
    \E pc \in PlanContents,
       cl \in {NoFile} \cup {FileOf(c) : c \in ExistingFiles} :
       ProjectInit(pc, TemplateNames, cl, NoFile, NoFile, FALSE)

\* update-agent-context claude, again and again, with set-current-feature
\* in between
PatchNext ==
    \/ UpdateAgentContext("claude", NoFault)
    \/ \E name \in {N001a, N003b} : SetCurrentFeature(name)

PatchSpec == PatchInit /\ [][PatchNext]_vars

\* each of the three files is there or not, and so are the template and
\* the directory .github
AgentInit ==
    \E pc \in {"plan-python-web", "plan-template.md"},
       t \in {{}, TemplateNames},
       cl \in {NoFile, FileOf(SampleFile)},
       ge \in {NoFile, FileOf(SampleFile)},
       co \in {NoFile, FileOf(SampleFile)},
       gh \in BOOLEAN :
       /\ co.exists => gh
       /\ ProjectInit(pc, t, cl, ge, co, gh)

\* update-agent-context with any argument, meeting any exception
AgentNext ==
    \E agentType \in AgentTypes, flt \in Faults :
       UpdateAgentContext(agentType, flt)

AgentSpec == AgentInit /\ [][AgentNext]_vars

-----------------------------------------------------------------------------
(* The other commands of main() *)

\* sys.argv ends after the command
Missing == <<"<missing>">>

\* the paths a handler prints for the feature of the given name
PathsOut(root, name) ==
    [featureName |-> name, featureDir |-> GetFeatureDir(root, name),
     featureNum |-> << >>, number |-> 0]

\* a handler that writes nothing and ends with status 0
Succeed(c, a, o) ==
    /\ cmd' = c
    /\ arg' = a
    /\ exitCode' = 0
    /\ out' = o
    /\ UNCHANGED <<cwd, invocations, fsVars, created, agentVars>>

\* what copy_template returns
CopyTemplateResult(root, template) == template \in templates[root]

\* setup_plan that makes the directories before it looks at the current
\* feature
SetupPlan_MakesDirFirst ==
    LET root    == FindProjectRoot
        current == LoadCurrentFeature(root)
        sd      == MakeSpecsDir(specsDir[root])
    IN  /\ specsDir' = [specsDir EXCEPT ![root] = MakeFeatureDir(sd, current)]
        /\ IF current = None \/ ~CheckFeatureName(current)
           THEN exitCode' = 1 /\ docs' = docs
           ELSE /\ exitCode' = 0
                /\ docs' = CopyTemplate(root, "plan-template.md",
                                        current, "plan.md")
        /\ cmd' = "setup-plan"
        /\ arg' = << >>
        /\ out' = NoOut
        /\ UNCHANGED <<cwd, invocations, configFile, templates, created,
                       agentVars>>

\* main() for setup-plan with SpecKit.setup_plan
SetupPlan ==
    LET root    == FindProjectRoot
        current == LoadCurrentFeature(root)
        sd      == MakeSpecsDir(specsDir[root])
    IN  IF current = None \/ ~CheckFeatureName(current)
        THEN Fail("setup-plan", << >>)
        ELSE IF [name |-> current, dir |-> FALSE] \in sd.entries
        THEN \* makedirs raises FileExistsError after specs/ was made
             /\ specsDir' = [specsDir EXCEPT ![root] = sd]
             /\ cmd' = "setup-plan"
             /\ arg' = << >>
             /\ exitCode' = 1
             /\ out' = NoOut
             /\ UNCHANGED <<cwd, invocations, configFile, templates, docs,
                            created, agentVars>>
        ELSE /\ specsDir' = [specsDir EXCEPT
                               ![root] = MakeFeatureDir(sd, current)]
             /\ docs' = CopyTemplate(root, "plan-template.md",
                                     current, "plan.md")
             /\ cmd' = "setup-plan"
             /\ arg' = << >>
             /\ exitCode' = 0
             /\ out' = PathsOut(root, current)
             /\ UNCHANGED <<cwd, invocations, configFile, templates,
                            created, agentVars>>

\* main() for check-task-prerequisites with
\* SpecKit.check_task_prerequisites
CheckTaskPrerequisites ==
    LET root    == FindProjectRoot
        current == LoadCurrentFeature(root)
    IN  IF \/ current = None
           \/ ~CheckFeatureName(current)
           \/ ~IsFeatureDir(root, current)
           \/ DocAt(root, current, "plan.md") = {}
        THEN Fail("check-task-prerequisites", << >>)
        ELSE Succeed("check-task-prerequisites", << >>,
                     PathsOut(root, current))

\* main() for get-current-feature with SpecKit.get_current_feature_info
GetCurrentFeatureInfo ==
    LET root == FindProjectRoot
    IN  Succeed("get-current-feature", << >>,
                [NoOut EXCEPT !.featureName = LoadCurrentFeature(root)])

\* main() for list-features with SpecKit.list_available_features
ListAvailableFeatures == Succeed("list-features", << >>, NoOut)

\* main() for create-new-feature with no description, lines 762-765
CreateNewFeatureNoArg == Fail("create-new-feature", Missing)

\* main() for set-current-feature with no name, lines 784-787
SetCurrentFeatureNoArg == Fail("set-current-feature", Missing)

\* main() for a command it does not know, lines 798-802
UnknownCommand == Fail("frobnicate", << >>)

\* main() called without a command, lines 709-734
NoCommand == Fail("", Missing)


N002a == <<"0", "0", "2", "-", "a">>
N003a == <<"0", "0", "3", "-", "a">>

\* what specs/ of a project holds before the first command: a feature
\* directory and a regular file named like the second feature to come
ProjectEntries ==
    { [name |-> N001a, dir |-> TRUE], [name |-> N003a, dir |-> FALSE] }

\* a plan.md written by hand
UserPlan(root) ==
    [root |-> root, feature |-> N001a, doc |-> "plan.md",
     content |-> "plan-python-web"]

\* the description create-new-feature is called with here
ToolDescriptions == { <<"a">> }

\* the agent types update-agent-context is called with here
ToolAgentTypes == {"claude", "cursor"}

\* Before the first command no current feature is set.  Either the
\* directory below the filesystem root holds nothing, an empty specs
\* directory or a config file with a null current feature, or it is a
\* project with features and no config file, with or without templates
\* and a plan written by hand.
ToolInit ==
    /\ cwd \in {1, Depth}
    /\ invocations = NoInvocations
    /\ \/ \E specsAt \in SUBSET {1}, configAt \in SUBSET {1} :
             /\ specsDir = [l \in Levels |->
                   [exists |-> l \in specsAt, entries |-> {}]]
             /\ configFile = [l \in Levels |->
                   [file |-> l \in configAt, cur |-> None]]
             /\ templates = [l \in Levels |-> {}]
             /\ docs = {}
       \/ \E t \in {{}, TemplateNames}, hasPlan \in BOOLEAN :
             /\ cwd = 1
             /\ specsDir = [l \in Levels |->
                   IF l = 1
                   THEN [exists |-> TRUE, entries |-> ProjectEntries]
                   ELSE [exists |-> FALSE, entries |-> {}]]
             /\ configFile = [l \in Levels |->
                   [file |-> FALSE, cur |-> None]]
             /\ templates = [l \in Levels |-> t]
             /\ docs = IF hasPlan THEN {UserPlan(1)} ELSE {}
    /\ cmd = "none"
    /\ arg = << >>
    /\ exitCode = 0
    /\ out = NoOut
    /\ created = << >>
    /\ AgentIdle
    /\ agentFiles = [l \in Levels |-> [a \in AgentNames |-> NoFile]]
    /\ githubDir = [l \in Levels |-> FALSE]

\* one run of main() with any command
ToolNext ==
    \/ \E desc \in ToolDescriptions : CreateNewFeature(desc)
    \/ CreateNewFeatureNoArg
    \/ \E e \in specsDir[FindProjectRoot].entries :
          SetCurrentFeature(e.name)
    \/ SetCurrentFeatureNoArg
    \/ GetFeaturePathsCommand
    \/ SetupPlan
    \/ CheckTaskPrerequisites
    \/ GetCurrentFeatureInfo
    \/ ListAvailableFeatures
    \/ \E agentType \in ToolAgentTypes :
          UpdateAgentContext(agentType, NoFault)
    \/ UnknownCommand
    \/ NoCommand

ToolSpec == ToolInit /\ [][ToolNext]_vars

\* a call of ProjectManager.get_project_root after ProjectManager()
GetProjectRootCall ==
    Succeed("get_project_root", << >>,
            [NoOut EXCEPT !.featureDir = GetFeatureDir(FindProjectRoot, None)])

\* any directory of the chain holds a specs directory, a config file with
\* a null current feature, both or neither
RootInit ==
    /\ cwd \in Levels
    /\ invocations = NoInvocations
    /\ \E specsAt \in SUBSET Levels, configAt \in SUBSET Levels :
          /\ specsDir = [l \in Levels |->
                [exists |-> l \in specsAt, entries |-> {}]]
          /\ configFile = [l \in Levels |->
                [file |-> l \in configAt, cur |-> None]]
    /\ templates = [l \in Levels |-> {}]
    /\ docs = {}
    /\ cmd = "none"
    /\ arg = << >>
    /\ exitCode = 0
    /\ out = NoOut
    /\ created = << >>
    /\ AgentIdle
    /\ agentFiles = [l \in Levels |-> [a \in AgentNames |-> NoFile]]
    /\ githubDir = [l \in Levels |-> FALSE]

\* the root is located, before and after features are created, from any
\* directory
RootNext ==
    \/ GetProjectRootCall
    \/ CreateNewFeature(<<"a">>)
    \/ ListAvailableFeatures

RootSpec == RootInit /\ [][RootNext]_vars

-----------------------------------------------------------------------------
(* Two create-new-feature processes at the same time in one directory.    *)
(* Each is a separate run of main(); the system calls of                  *)
(* FeatureManager.create_new_feature are its steps.                       *)

Invocations == {1, 2}

\* a process that has not started
Idle(desc) ==
    [pc |-> "start", desc |-> desc, root |-> -1, num |-> 0, name |-> None,
     seen |-> {}]

ProcOf(p) == invocations.proc[p]

SetProc(p, rec) == [invocations EXCEPT !.proc[p] = rec]

\* SpecKit(), then lines 145-169: the root is located, specs/ is made and
\* listed, the number and the name are computed
RaceScan(p) ==
    LET root == FindProjectRoot
        sd   == MakeSpecsDir(specsDir[root])
        num  == GetNextFeatureNumber(sd)
    IN  /\ ProcOf(p).pc = "start"
        /\ specsDir' = [specsDir EXCEPT ![root] = sd]
        /\ invocations' =
             SetProc(p, [ProcOf(p) EXCEPT
                           !.pc = "scanned", !.root = root, !.num = num,
                           !.name = FinalFeatureName(num, ProcOf(p).desc),
                           !.seen = sd.entries])
        /\ UNCHANGED <<cwd, configFile, templates, docs, cmd, arg, exitCode,
                       out, created, agentVars>>

\* line 173: os.makedirs(feature_dir, exist_ok=True), which raises when the
\* path is a regular file
RaceMakeDir(p) ==
    LET me == ProcOf(p)
    IN  /\ me.pc = "scanned"
        /\ IF IsFeatureFile(me.root, me.name)
           THEN /\ invocations' = SetProc(p, [me EXCEPT !.pc = "failed"])
                /\ cmd' = "create-new-feature"
                /\ arg' = me.desc
                /\ exitCode' = 1
                /\ out' = NoOut
                /\ UNCHANGED <<cwd, fsVars, created, agentVars>>
           ELSE /\ invocations' = SetProc(p, [me EXCEPT !.pc = "made"])
                /\ specsDir' = [specsDir EXCEPT ![me.root] =
                                  MakeFeatureDir(specsDir[me.root], me.name)]
                /\ UNCHANGED <<cwd, configFile, templates, docs, cmd, arg,
                               exitCode, out, created, agentVars>>

\* line 176: set_current_feature writes the config file
RaceSaveConfig(p) ==
    LET me == ProcOf(p)
    IN  /\ me.pc = "made"
        /\ configFile' = SaveCurrentFeature(me.root, me.name)
        /\ invocations' =
             [proc  |-> [invocations.proc EXCEPT ![p].pc = "saved"],
              saved |-> Append(invocations.saved, p)]
        /\ UNCHANGED <<cwd, specsDir, templates, docs, cmd, arg, exitCode,
                       out, created, agentVars>>

\* lines 326-341: the spec template is copied and the result printed
RaceCopyTemplate(p) ==
    LET me == ProcOf(p)
    IN  /\ me.pc = "saved"
        /\ docs' = CopyTemplate(me.root, "spec-template.md",
                                me.name, "spec.md")
        /\ invocations' = SetProc(p, [me EXCEPT !.pc = "done"])
        /\ cmd' = "create-new-feature"
        /\ arg' = me.desc
        /\ exitCode' = 0
        /\ out' = [featureName |-> me.name,
                   featureDir  |-> GetFeatureDir(me.root, me.name),
                   featureNum  |-> Format03d(me.num),
                   number      |-> me.num]
        /\ created' = Append(created, me.num)
        /\ UNCHANGED <<cwd, configFile, specsDir, templates, agentVars>>

\* specs/ is missing, empty, or holds a feature, with or without a regular
\* file named like the next one; the two processes are given any of the
\* descriptions
RaceInit ==
    /\ cwd = 1
    /\ \E d \in [Invocations -> {<<"a">>, <<"!">>, <<"A", " ", "b">>}] :
          invocations = [proc  |-> [p \in Invocations |-> Idle(d[p])],
                         saved |-> << >>]
    /\ \E sd \in { [exists |-> FALSE, entries |-> {}],
                   [exists |-> TRUE,  entries |-> {}],
                   [exists |-> TRUE,
                    entries |-> {[name |-> N001a, dir |-> TRUE]}],
                   [exists |-> TRUE,
                    entries |-> {[name |-> N001a, dir |-> TRUE],
                                 [name |-> N002a, dir |-> FALSE]}] } :
          specsDir = [l \in Levels |->
                        IF l = 1 THEN sd
                        ELSE [exists |-> FALSE, entries |-> {}]]
    /\ configFile = [l \in Levels |-> [file |-> FALSE, cur |-> None]]
    /\ \E t \in {{}, TemplateNames} : templates = [l \in Levels |-> t]
    /\ docs = {}
    /\ cmd = "none"
    /\ arg = << >>
    /\ exitCode = 0
    /\ out = NoOut
    /\ created = << >>
    /\ AgentIdle
    /\ agentFiles = [l \in Levels |-> [a \in AgentNames |-> NoFile]]
    /\ githubDir = [l \in Levels |-> FALSE]

\* the operating system runs the next system call of either process
RaceNext ==
    \E p \in Invocations :
       \/ RaceScan(p)
       \/ RaceMakeDir(p)
       \/ RaceSaveConfig(p)
       \/ RaceCopyTemplate(p)

RaceSpec == RaceInit /\ [][RaceNext]_vars

-----------------------------------------------------------------------------
(* Properties of the feature numberer and the feature registry *)

\* the project root of the current state, found without the loop: the
\* deepest level from the working directory upward, the filesystem root
\* excluded, that holds the config file or specs/
RootOfState ==
    LET found == {l \in 1 .. cwd : configFile[l].file \/ specsDir[l].exists}
    IN  IF found = {} THEN cwd
        ELSE CHOOSE l \in found : \A m \in found : m <= l

AllWhitespace(s) == \A i \in 1 .. Len(s) : s[i] \in {" ", "\t"}

\* ^\d{3}- read off the positions of the name
HasThreeDigitPrefix(name) ==
    /\ Len(name) >= 4
    /\ \A i \in 1 .. 3 : name[i] \in Digits
    /\ name[4] = "-"

\* C1: in a sequence of successful create-new-feature calls with no other
\* change to specs/, every call's feature number is strictly greater than
\* the number of every earlier call.
C1_NumbersIncrease ==
    \A i, j \in 1 .. Len(created) : i < j => created[i] < created[j]

C1_Witness ==
    /\ Len(created) >= 2
    /\ cmd = "create-new-feature"
    /\ exitCode = 0

\* number of digits the name starts with
PrefixLen(name) ==
    CHOOSE k \in 0 .. Len(name) :
        /\ \A i \in 1 .. k : name[i] \in Digits
        /\ k = Len(name) \/ name[k + 1] \notin Digits

RECURSIVE Pow10(_)
Pow10(n) == IF n = 0 THEN 1 ELSE 10 * Pow10(n - 1)

RECURSIVE PositionalSum(_, _, _)
PositionalSum(name, k, i) ==
    IF i > k THEN 0
    ELSE DigitVal(name[i]) * Pow10(k - i) + PositionalSum(name, k, i + 1)

\* the set P of the numeric prefixes of the subdirectories of specs/
NumericPrefixes(sd) ==
    IF ~sd.exists THEN {}
    ELSE { PositionalSum(e.name, PrefixLen(e.name), 1) :
             e \in {x \in sd.entries : x.dir /\ PrefixLen(x.name) > 0} }

ExpectedNextNumber(sd) ==
    LET P == NumericPrefixes(sd)
    IN  IF P = {} THEN 1
        ELSE (CHOOSE m \in P : \A x \in P : x <= m) + 1

\* C2: get_next_feature_number returns max(P)+1 for the set P of the
\* leading-digit prefixes of the subdirectories of specs/, and 1 when specs/
\* is absent or has no such subdirectory; it ignores the other entries and
\* changes nothing.
C2_NextNumberIsMaxPlusOne ==
    [][cmd' = "get_next_feature_number"
         => /\ exitCode' = 0
            /\ out'.number = ExpectedNextNumber(specsDir[RootOfState])
            /\ UNCHANGED fsVars]_vars

C2_Witness ==
    /\ cmd = "get_next_feature_number"
    /\ out.number = 4
    /\ [name |-> Nxy, dir |-> TRUE] \in specsDir[RootOfState].entries
    /\ [name |-> N004a, dir |-> FALSE] \in specsDir[RootOfState].entries
    /\ [name |-> N001a, dir |-> TRUE] \in specsDir[RootOfState].entries

\* C3: create-new-feature with an empty or whitespace-only description
\* exits non-zero, creates no directory and leaves the Config unchanged.
C3_BlankDescriptionRejected ==
    [][(cmd' = "create-new-feature" /\ AllWhitespace(arg'))
         => /\ exitCode' = 1
            /\ specsDir' = specsDir
            /\ configFile' = configFile
            /\ docs' = docs]_vars

C3_Witness ==
    /\ cmd = "create-new-feature"
    /\ arg # << >>
    /\ AllWhitespace(arg)
    /\ exitCode = 1
    /\ configFile[RootOfState].cur # None

\* C4: set-current-feature with a name that does not match ^\d{3}- or that
\* has no directory under specs/ exits non-zero and leaves the Config
\* unchanged; only a name that passes both checks is written.
C4_InvalidNameLeavesConfig ==
    [][cmd' = "set-current-feature"
         => LET valid ==
                  /\ HasThreeDigitPrefix(arg')
                  /\ specsDir[RootOfState].exists
                  /\ [name |-> arg', dir |-> TRUE]
                        \in specsDir[RootOfState].entries
            IN  /\ ~valid => (exitCode' = 1 /\ configFile' = configFile)
                /\ configFile' # configFile =>
                      (valid /\ configFile'[RootOfState].cur = arg')]_vars

C4_Witness ==
    /\ cmd = "set-current-feature"
    /\ exitCode = 1
    /\ arg = Nxy
    /\ [name |-> Nxy, dir |-> TRUE] \in specsDir[RootOfState].entries
    /\ configFile[RootOfState].cur # None

\* C5: a successful create-new-feature followed immediately by
\* get-feature-paths succeeds and reports the FEATURE_DIR just created.
C5_CreateThenPathsRoundTrip ==
    [][(cmd = "create-new-feature" /\ exitCode = 0
          /\ cmd' = "get-feature-paths")
         => (exitCode' = 0 /\ out'.featureDir = out.featureDir)]_vars

\* the characters of [a-z0-9-]
SlugChars == LowerCase \cup Digits \cup {"-"}

\* number of hyphens in a slug
HyphenCount(s) == Cardinality({i \in 1 .. Len(s) : s[i] = "-"})

\* C6: every feature name produced by create-new-feature is three digits,
\* a hyphen and a slug of at most 3 hyphen-joined lowercase alphanumeric
\* words, and is accepted by check_feature_name.
C6_CreatedNameWellFormed ==
    (cmd = "create-new-feature" /\ exitCode = 0)
        => /\ HasThreeDigitPrefix(out.featureName)
           /\ \A i \in 5 .. Len(out.featureName) :
                 out.featureName[i] \in SlugChars
           /\ HyphenCount(SubSeq(out.featureName, 5,
                                 Len(out.featureName))) <= 2
           /\ Len(out.featureNum) = 3
           /\ CheckFeatureName(out.featureName)

-----------------------------------------------------------------------------
(* Properties of the agent context patcher *)

\* the step is a run of update-agent-context that patched the existing
\* file a of the project root
Patched(a) ==
    /\ cmd' = "update-agent-context"
    /\ a \in updatedFiles'
    /\ agentFiles[RootOfState][a].exists

LinesBefore(a) == agentFiles[RootOfState][a].lines
LinesAfter(a)  == agentFiles'[RootOfState][a].lines

\* C7: patching an existing agent context file is idempotent: a second run
\* on the same day with the same plan and the same current feature leaves
\* the file as the first run wrote it.
C7_PatchIdempotent ==
    [][\A a \in AgentNames :
         (/\ Patched(a)
          /\ lastPatch[a].feature # None
          /\ lastPatch'[a] = lastPatch[a])
            => LinesAfter(a) = LinesBefore(a)]_vars

\* index of the first line that is the header of the section, 0 if none
FirstHeader(c, title) ==
    LET hs == {i \in 1 .. Len(c) : c[i].k = "hdr" /\ c[i].a = title}
    IN  IF hs = {} THEN 0 ELSE CHOOSE i \in hs : \A j \in hs : i <= j

\* the entries of a section as a reader sees them: the lines under the
\* header up to the first empty line, without their indentation
SectionEntries(c, title) ==
    LET h     == FirstHeader(c, title)
        stops == {i \in h + 1 .. Len(c) : c[i].k = "blank"}
        stop  == IF stops = {} THEN Len(c) + 1
                 ELSE CHOOSE i \in stops : \A j \in stops : i <= j
        body  == SelectSeq(Lines(c, h + 1, stop - 1),
                           LAMBDA l : l.k # "ws")
    IN  [i \in 1 .. Len(body) |-> [body[i] EXCEPT !.ind = 0]]

\* the file has the section: its header line, and a newline after it
HasSection(c, title) ==
    FirstHeader(c, title) > 0 /\ FirstHeader(c, title) < Len(c)

\* C8: after a patch of a file that has a Recent Changes section, the
\* section holds at most 3 entries: the entry of the current feature first,
\* then the entries that were the newest before, in their order.
C8_RecentChangesCapped ==
    [][\A a \in AgentNames :
         (Patched(a) /\ HasSection(LinesBefore(a), "Recent Changes"))
            => LET before == SectionEntries(LinesBefore(a), "Recent Changes")
                   after  == SectionEntries(LinesAfter(a), "Recent Changes")
               IN  /\ Len(after) <= 3
                   /\ Len(after) = IF Len(before) >= 2 THEN 3
                                   ELSE Len(before) + 1
                   /\ after[1].k = "change"
                   /\ after[1].f = configFile[RootOfState].cur
                   /\ \A i \in 2 .. Len(after) : after[i] = before[i - 1]
      ]_vars

RecognizedSections ==
    {"Active Technologies", "Project Structure", "Commands", "Recent Changes"}

\* the title of the section line i lies in: that of the last header at or
\* before it, "" before the first header
SectionOf(c, i) ==
    LET hs == {j \in 1 .. i : c[j].k = "hdr"}
    IN  IF hs = {} THEN ""
        ELSE c[CHOOSE j \in hs : \A m \in hs : m <= j].a

RECURSIVE OtherLinesFrom(_, _)
\* the lines outside the recognized sections, the date line left out
OtherLinesFrom(c, i) ==
    IF i > Len(c) THEN << >>
    ELSE (IF SectionOf(c, i) \notin RecognizedSections /\ c[i].k # "date"
          THEN <<c[i]>> ELSE << >>) \o OtherLinesFrom(c, i + 1)

\* C9: a patch changes only the inside of the recognized sections and the
\* Last updated date; all text outside them and every other section is
\* unchanged, for every file.
C9_PatchStaysInsideSections ==
    [][\A a \in AgentNames :
         Patched(a)
            => OtherLinesFrom(LinesAfter(a), 1)
                 = OtherLinesFrom(LinesBefore(a), 1)]_vars

\* the files a run with the argument of the step selects
SelectedBy(agentType) ==
    CASE agentType = "claude"  -> {Claude}
      [] agentType = "gemini"  -> {Gemini}
      [] agentType = "copilot" -> {Copilot}
      [] OTHER ->
           LET existing == {a \in AgentNames :
                              agentFiles[RootOfState][a].exists}
           IN  IF existing = {} THEN {Claude} ELSE existing

\* the run of the step met an exception for the file fault' and went on:
\* that file is reported and left alone, every other selected file that
\* exists is patched, the summary is printed
ErrorIsolated ==
    /\ summary'
    /\ exitCode' = 0
    /\ fault' \in failedFiles'
    /\ agentFiles'[RootOfState][fault'] = agentFiles[RootOfState][fault']
    /\ \A b \in SelectedBy(agentArg') \ {fault'} :
          /\ agentFiles[RootOfState][b].exists
          /\ b \in updatedFiles'
          /\ agentFiles'[RootOfState][b] # agentFiles[RootOfState][b]

\* C10 as stated: an error raised for one file, patched or newly created,
\* is caught and reported, only that file is skipped and the command goes
\* on to the other files and to its summary.
C10_AnyErrorIsolated ==
    [][(cmd' = "update-agent-context" /\ fault' # "")
         => ErrorIsolated]_vars

\* C10 amended: an error raised while an existing file is read, patched or
\* written is caught and reported, only that file is skipped and the
\* command goes on to the other files and to its summary; an error raised
\* while a new file is created from the template is not caught and ends
\* the command at once, without the summary.
C10_PatchErrorIsolated ==
    [][(cmd' = "update-agent-context" /\ fault' # "")
         => IF agentFiles[RootOfState][fault'].exists
            THEN ErrorIsolated
            ELSE /\ ~summary'
                 /\ exitCode' = 1
                 /\ fault' \notin failedFiles'
                 /\ agentFiles'[RootOfState][fault']
                      = agentFiles[RootOfState][fault']]_vars

C10_Witness ==
    /\ cmd = "update-agent-context"
    /\ agentArg = NoArg
    /\ fault = Claude
    /\ failedFiles = {Claude}
    /\ updatedFiles = {Gemini, Copilot}
    /\ summary

-----------------------------------------------------------------------------
(* The files update-agent-context writes *)

\* the agent files of the project root the step has changed
ChangedAgentFiles ==
    {a \in AgentNames :
       agentFiles'[RootOfState][a] # agentFiles[RootOfState][a]}

\* the agent files of the project root before the step
ExistingAgentFiles ==
    {a \in AgentNames : agentFiles[RootOfState][a].exists}

\* C11: update-agent-context writes only agent context files of the
\* project root: with an argument at most the file of that agent, without
\* one the files that exist already (all of them when no error is met),
\* and only CLAUDE.md when none exists; the Config, specs/ and its
\* documents are never changed.
C11_WritesOnlyAgentFiles ==
    [][cmd' = "update-agent-context"
         => LET allowed ==
                  CASE agentArg' = "claude"  -> {Claude}
                    [] agentArg' = "gemini"  -> {Gemini}
                    [] agentArg' = "copilot" -> {Copilot}
                    [] agentArg' = NoArg ->
                         IF ExistingAgentFiles = {} THEN {Claude}
                         ELSE ExistingAgentFiles
                    [] OTHER -> {}
            IN  /\ ChangedAgentFiles \subseteq updatedFiles'
                /\ updatedFiles' \subseteq allowed
                /\ (agentArg' = NoArg /\ ExistingAgentFiles # {}
                      /\ fault' = "" /\ exitCode' = 0)
                     => updatedFiles' = ExistingAgentFiles
                /\ \A l \in Levels \ {RootOfState} :
                      agentFiles'[l] = agentFiles[l]
                /\ UNCHANGED <<configFile, specsDir, docs, templates,
                               githubDir>>]_vars

\* a run without an argument has patched the two files that were there and
\* has not made the third
C11_Witness ==
    /\ cmd = "update-agent-context"
    /\ agentArg = NoArg
    /\ fault = ""
    /\ updatedFiles = {Gemini, Copilot}
    /\ ~agentFiles[RootOfState][Claude].exists

-----------------------------------------------------------------------------
(* The Project Structure block *)

\* the lines of the code block under the Project Structure header
StructureBlock(c) ==
    LET h      == FirstHeader(c, "Project Structure")
        closes == {i \in h + 2 .. Len(c) : c[i].k = "fence"}
        close  == IF closes = {} THEN Len(c) + 1
                  ELSE CHOOSE i \in closes : \A j \in closes : i <= j
    IN  Lines(c, h + 2, close - 1)

\* the block names a frontend directory
HasFrontendEntry(block) ==
    \E i \in 1 .. Len(block) : ContainsFrontend(block[i])

\* C17: a patch with a plan whose Project Type mentions "web", the test of
\* line 537, appends exactly one frontend line to a Project Structure block
\* that has no frontend/ entry; otherwise it leaves the block as it is.
C17_FrontendAppendedForWeb ==
    [][\A a \in AgentNames :
         (Patched(a) /\ HasSection(LinesBefore(a), "Project Structure"))
            => LET before == StructureBlock(LinesBefore(a))
                   after  == StructureBlock(LinesAfter(a))
                   ptype  == ExtractPlan(lastPatch'[a].plan).ptype
               IN  IF MentionsWeb(ptype) /\ ~HasFrontendEntry(before)
                   THEN /\ Len(after) = Len(before) + 1
                        /\ Lines(after, 1, Len(before)) = before
                        /\ ContainsFrontend(after[Len(after)])
                   ELSE after = before]_vars

-----------------------------------------------------------------------------
(* Properties of the commands *)

\* what the step leaves of the files and directories of every level
FilesUnchanged ==
    UNCHANGED <<configFile, specsDir, docs, templates, agentFiles,
                githubDir>>

\* the target of a copy_template call after the step
TargetAfter(root, name, doc) ==
    {d \in docs' : d.root = root /\ d.feature = name /\ d.doc = doc}

\* the contract of one copy_template call: its target afterwards
CopyContract(root, template, name, doc) ==
    /\ Cardinality(TargetAfter(root, name, doc)) = 1
    /\ \A d \in TargetAfter(root, name, doc) :
          IF template \in templates[root]
          THEN CopyTemplateResult(root, template) /\ d.content = template
          ELSE ~CopyTemplateResult(root, template)
               /\ d.content = EmptyContent

\* C12: after copy_template the target exists; with the template present
\* it holds the template's content and the call returns true, with the
\* template missing the call returns false and the target is an empty
\* file, whether or not it existed before.
C12_CopyTemplateContract ==
    [][/\ (cmd' = "setup-plan" /\ exitCode' = 0)
            => CopyContract(RootOfState, "plan-template.md",
                            configFile[RootOfState].cur, "plan.md")
       /\ (cmd' = "create-new-feature" /\ exitCode' = 0)
            => CopyContract(RootOfState, "spec-template.md",
                            out'.featureName, "spec.md")]_vars

\* the step is a run of main() that ends in a usage error
UsageErrorStep ==
    \/ cmd' \in {"frobnicate", ""}
    \/ cmd' \in {"create-new-feature", "set-current-feature"}
         /\ arg' = Missing
    \/ cmd' = "update-agent-context"
         /\ agentArg' \notin {"claude", "gemini", "copilot", NoArg}

\* C13: an unknown command, create-new-feature or set-current-feature
\* without its argument and update-agent-context with an unknown agent
\* type exit non-zero and change no file or directory.
C13_UsageErrorsMutateNothing ==
    [][UsageErrorStep => (exitCode' # 0 /\ FilesUnchanged)]_vars

\* update-agent-context cursor has failed in a project where CLAUDE.md
\* and the plan of the current feature exist
C13_Witness ==
    /\ cmd = "update-agent-context"
    /\ agentArg = "cursor"
    /\ exitCode = 1
    /\ agentFiles[RootOfState][Claude].exists
    /\ DocAt(RootOfState, configFile[RootOfState].cur, "plan.md") # {}

\* the Config of the project root has no current feature: there is no
\* config file, or its current_feature is null or empty
NoCurrentFeature ==
    \/ ~configFile[RootOfState].file
    \/ configFile[RootOfState].cur = None

\* C14: with no current feature set, check-task-prerequisites,
\* get-feature-paths, setup-plan and update-agent-context exit non-zero
\* before they create or change a file or a directory.
C14_NoCurrentFeatureFails ==
    [][(/\ cmd' \in {"check-task-prerequisites", "get-feature-paths",
                     "setup-plan", "update-agent-context"}
        /\ NoCurrentFeature)
         => (exitCode' = 1 /\ FilesUnchanged)]_vars

\* setup-plan has failed where the config file holds a null current
\* feature and specs/ is yet to be made
C14_Witness ==
    /\ cmd = "setup-plan"
    /\ exitCode = 1
    /\ configFile[RootOfState].file
    /\ configFile[RootOfState].cur = None
    /\ ~specsDir[RootOfState].exists

\* C18: the current feature of every config file is unset or names a
\* directory under specs/ of its root, and only a create-new-feature or a
\* set-current-feature that succeeds changes a config file.
C18_CurrentFeatureExists ==
    /\ [](\A l \in Levels :
            configFile[l].file
              => \/ configFile[l].cur = None
                 \/ /\ specsDir[l].exists
                    /\ [name |-> configFile[l].cur, dir |-> TRUE]
                         \in specsDir[l].entries)
    /\ [][configFile' # configFile
            => /\ cmd' \in {"create-new-feature", "set-current-feature"}
               /\ exitCode' = 0]_vars

\* a feature was created, the older feature 001-a was made the current
\* one again and the agent file was written from its plan
C18_Witness ==
    /\ Len(created) >= 1
    /\ cmd = "update-agent-context"
    /\ exitCode = 0
    /\ configFile[RootOfState].cur = N001a
    /\ [name |-> N002a, dir |-> TRUE] \in specsDir[RootOfState].entries
    /\ agentFiles[RootOfState][Claude].exists

-----------------------------------------------------------------------------
(* Properties of the root locator *)

\* the directories from level top down to the working directory that hold
\* a config file or a specs directory
MatchesOnPath(top) ==
    {l \in top .. cwd : configFile[l].file \/ specsDir[l].exists}

\* the first of them met on the way up, the working directory when there
\* is none
FirstMatch(top) ==
    IF MatchesOnPath(top) = {} THEN cwd
    ELSE CHOOSE l \in MatchesOnPath(top) :
            \A m \in MatchesOnPath(top) : m <= l

\* what a call of the locator does besides returning: nothing, and a
\* second call right after it returns the same
LocatorIsPure ==
    /\ FilesUnchanged
    /\ cwd' = cwd
    /\ cmd = "get_project_root" => out' = out

\* C15 as stated: the locator returns the first directory on the path
\* from the starting directory up through all its parents that holds
\* spec-kit.json or specs, the starting directory when none does, and has
\* no side effect.
C15_FirstMatchOnWholePath ==
    [][cmd' = "get_project_root"
         => /\ out'.featureDir.root = FirstMatch(0)
            /\ LocatorIsPure]_vars

\* C15 amended: the locator returns the first directory on the path from
\* the starting directory up to, and without, the filesystem root that
\* holds spec-kit.json or specs; it returns the starting directory when
\* none of them does, whatever the filesystem root holds; it has no side
\* effect and a second call returns the same.
C15_FirstMatchBelowFilesystemRoot ==
    [][cmd' = "get_project_root"
         => /\ out'.featureDir.root = FirstMatch(1)
            /\ LocatorIsPure]_vars

\* called two levels below the filesystem root, the locator has passed a
\* directory with neither and returned its parent, which holds specs/
C15_Witness ==
    /\ cmd = "get_project_root"
    /\ cwd = 2
    /\ out.featureDir.root = 1
    /\ specsDir[1].exists
    /\ ~configFile[1].file
    /\ ~specsDir[2].exists /\ ~configFile[2].file

-----------------------------------------------------------------------------
(* Two processes creating features *)

\* the directory of process p's feature
DirOf(p) == [name |-> ProcOf(p).name, dir |-> TRUE]

\* both processes have listed specs/, each before the other had made its
\* directory
ScannedBeforeOtherCreated(p, q) ==
    /\ ProcOf(p).pc # "start"
    /\ ProcOf(q).pc # "start"
    /\ DirOf(q) \notin ProcOf(p).seen
    /\ DirOf(p) \notin ProcOf(q).seen

\* C16: two create-new-feature processes that each scan specs/ before the
\* other has made its directory obtain the same feature number; when both
\* have ended, the directories of both names, which carry that one number,
\* exist under specs/ (one directory when the names are equal) and the
\* Config holds the name that was written last.
C16_RaceYieldsDuplicateNumber ==
    \A p, q \in DOMAIN invocations.proc :
       (p # q /\ ScannedBeforeOtherCreated(p, q))
          => /\ ProcOf(p).num = ProcOf(q).num
             /\ LeadingDigits(ProcOf(p).name) = LeadingDigits(ProcOf(q).name)
             /\ (ProcOf(p).pc = "done" /\ ProcOf(q).pc = "done")
                  => LET root == ProcOf(p).root
                         last == invocations.saved[Len(invocations.saved)]
                     IN  /\ {DirOf(p), DirOf(q)}
                               \subseteq specsDir[root].entries
                         /\ configFile[root].cur = ProcOf(last).name
                         /\ created = <<ProcOf(p).num, ProcOf(p).num>>

\* both processes have ended with 001 as their number: specs/ holds 001-a
\* and 001-a-b, and the Config names the one of the process that wrote
\* last, which is the process that scanned first
C16_Witness ==
    /\ DOMAIN invocations.proc = Invocations
    /\ \A p \in Invocations : ProcOf(p).pc = "done" /\ ProcOf(p).num = 1
    /\ ProcOf(1).name # ProcOf(2).name
    /\ {DirOf(1), DirOf(2)} \subseteq specsDir[1].entries
    /\ invocations.saved = <<2, 1>>
    /\ configFile[1].cur = ProcOf(1).name

====
